---- MODULE Spec2Model ----
(***************************************************************************)
(* Model of the REPL dispatch loop of sgpt (ReplHandler.handle) and of the *)
(* chat session store it writes through ChatHandler.                       *)
(*                                                                         *)
(* Text is modelled as a sequence of atoms.  An atom is either the newline *)
(* "N" or an indivisible piece of a line: "Q" is the three-double-quote    *)
(* sentinel, "X" is the text exit(), "e" and "d" are the one-letter        *)
(* commands, "a" is any other text.  A line is a sequence of atoms without *)
(* "N"; the empty line is << >>.                                           *)
(***************************************************************************)
EXTENDS Integers, Sequences, FiniteSets, TLC

\* ---------------------------------------------------------------- bounds
\* Longest pre-supplied block, in lines.
MaxInitLines == 4
\* Most lines one run consumes, pre-supplied and typed together.
MaxLines == 4

\* ------------------------------------------------------------- constants
NL == "N"
SENTINEL == <<"Q">>
EXIT == <<"X">>
EXECUTE == <<"e">>
DESCRIBE == <<"d">>
EMPTY == << >>

SHELL == "Shell Command Generator"
DEFAULT == "ShellGPT"

RoleNames == {SHELL, DEFAULT}
Keys == {"temp", "k1"}
\* A session file that does not exist holds no message.
Absent == << >>

\* Lines that may appear in the pre-supplied block and lines the user types.
InitLineSet == {SENTINEL, EXIT, EXECUTE, DESCRIBE, <<"a">>, EMPTY}
TtyLineSet == {SENTINEL, EXIT, EXECUTE, DESCRIBE, <<"a">>}
\* Texts the completion client may return.
Completions == {<<"r1">>, <<"r2">>}
Descriptions == {<<"t1">>}

SeqsUpTo(S, n) == UNION {[1..k -> S] : k \in 0..n}

\* ------------------------------------------------------- pure functions
\* str.join: the lines separated by newlines.
RECURSIVE JoinLines(_)
JoinLines(ls) ==
    IF Len(ls) = 0 THEN EMPTY
    ELSE IF Len(ls) = 1 THEN ls[1]
    ELSE ls[1] \o <<NL>> \o JoinLines(Tail(ls))

\* str.split("\n"): k separators give k+1 pieces, empty pieces kept.
RECURSIVE SplitFrom(_, _, _)
SplitFrom(s, cur, acc) ==
    IF Len(s) = 0 THEN Append(acc, cur)
    ELSE IF Head(s) = NL THEN SplitFrom(Tail(s), EMPTY, Append(acc, cur))
    ELSE SplitFrom(Tail(s), Append(cur, Head(s)), acc)

Split(s) == SplitFrom(s, EMPTY, << >>)

InitPrompts == {JoinLines(ls) : ls \in SeqsUpTo(InitLineSet, MaxInitLines)}

\* ------------------------------------------------------------ the state
VARIABLES
    roleName,         \* self.role.name
    chat_id,          \* self.chat_id
    init_prompt,      \* the parameter of handle
    init_lines,       \* init_prompt.split("\n")
    i,                \* index of the next pre-supplied line (0-based)
    multiline_input,  \* buffer of the multi-line block being read
    blockStart,       \* position of the opening sentinel of that block
    full_completion,  \* LastCompletion
    pending,          \* user prompt of the completion request in flight
    ret,              \* the loop the request in flight returns to
    pc,               \* position of handle
    store,            \* the persisted chat sessions, by key
    ttyLog,           \* the lines read from the interactive source so far
    trace             \* what handle has dispatched so far

\* The state of main, of the role store and of a session write in progress.
VARIABLES
    flags,            \* the options main was called with
    mpc,              \* position of main
    questions,        \* the questions read from the batch file
    results,          \* BatchProcessor.results
    locked,           \* session files whose unlink raises OSError
    remaining,        \* session files the delete-all loop has not visited
    roleFiles,        \* the role records in SystemRole.storage
    tmp,              \* the temporary file of a session write
    wpc               \* position of append_round

replVars == <<roleName, chat_id, init_prompt, init_lines, i, multiline_input,
              blockStart, pending, ret, pc, ttyLog>>

mainVars == <<flags, mpc, questions, results, locked, remaining>>

writeVars == <<tmp, wpc>>

extVars == <<flags, mpc, questions, results, locked, remaining, roleFiles,
             tmp, wpc>>

vars == <<roleName, chat_id, init_prompt, init_lines, i, multiline_input,
          blockStart, full_completion, pending, ret, pc, store, ttyLog, trace,
          flags, mpc, questions, results, locked, remaining, roleFiles,
          tmp, wpc>>

row == Len(init_lines)

\* The user still types: the run has not used up its lines.
CanRead == row + Len(ttyLog) < MaxLines

\* ------------------------------------------------------- session store
Message(r, c) == [role |-> r, content |-> c]
SystemMessage(name) == Message("system", <<name>>)

\* load(key): the stored list, or the list seeded with the system message.
Load(st, key, name) ==
    IF st[key] = Absent THEN <<SystemMessage(name)>> ELSE st[key]

\* AppendRound with the two messages of the round swapped.
AppendRound_AssistantFirst(st, key, name, user, assistant) ==
    [st EXCEPT ![key] = Load(st, key, name)
                          \o <<Message("assistant", assistant), Message("user", user)>>]

\* append_round(key, user, assistant): the whole list is written back.
AppendRound(st, key, name, user, assistant) ==
    [st EXCEPT ![key] = Load(st, key, name)
                          \o <<Message("user", user), Message("assistant", assistant)>>]

\* ------------------------------------------------------------ the trace
Event(op, prompt, arg, src, lo, hi) ==
    [op |-> op, prompt |-> prompt, arg |-> arg, src |-> src, lo |-> lo, hi |-> hi]

Log(ev) == trace' = Append(trace, ev)

Loop(src) == IF src = "init" THEN "init" ELSE "tty"

\* Dispatch where e and d are commands under every role.
Dispatch_NoRoleCheck(prompt, src, lo, hi) ==
    IF prompt = EXIT
    THEN /\ pc' = "exited"
         /\ Log(Event("exit", prompt, EMPTY, src, lo, hi))
         /\ UNCHANGED <<pending, ret>>
    ELSE IF prompt = EXECUTE
    THEN /\ pc' = Loop(src)
         /\ Log(Event("run", prompt, full_completion, src, lo, hi))
         /\ UNCHANGED <<pending, ret>>
    ELSE IF prompt = DESCRIBE
    THEN /\ pc' = "describing"
         /\ ret' = Loop(src)
         /\ Log(Event("describe", prompt, full_completion, src, lo, hi))
         /\ UNCHANGED pending
    ELSE /\ pc' = "awaiting"
         /\ ret' = Loop(src)
         /\ pending' = prompt
         /\ Log(Event("forward", prompt, EMPTY, src, lo, hi))

\* Dispatch where exit() does not leave the loop.
Dispatch_ExitContinues(prompt, src, lo, hi) ==
    IF prompt = EXIT
    THEN /\ pc' = Loop(src)
         /\ Log(Event("exit", prompt, EMPTY, src, lo, hi))
         /\ UNCHANGED <<pending, ret>>
    ELSE IF roleName = SHELL /\ prompt = EXECUTE
    THEN /\ pc' = Loop(src)
         /\ Log(Event("run", prompt, full_completion, src, lo, hi))
         /\ UNCHANGED <<pending, ret>>
    ELSE IF roleName = SHELL /\ prompt = DESCRIBE
    THEN /\ pc' = "describing"
         /\ ret' = Loop(src)
         /\ Log(Event("describe", prompt, full_completion, src, lo, hi))
         /\ UNCHANGED pending
    ELSE /\ pc' = "awaiting"
         /\ ret' = Loop(src)
         /\ pending' = prompt
         /\ Log(Event("forward", prompt, EMPTY, src, lo, hi))

\* ----------------------------------------------------------- dispatch
\* Lines 63-75 and 82-97: what handle does with the effective line content.
Dispatch(prompt, src, lo, hi) ==
    IF prompt = EXIT
    THEN /\ pc' = "exited"
         /\ Log(Event("exit", prompt, EMPTY, src, lo, hi))
         /\ UNCHANGED <<pending, ret>>
    ELSE IF roleName = SHELL /\ prompt = EXECUTE
    THEN /\ pc' = Loop(src)
         /\ Log(Event("run", prompt, full_completion, src, lo, hi))
         /\ UNCHANGED <<pending, ret>>
    ELSE IF roleName = SHELL /\ prompt = DESCRIBE
    THEN /\ pc' = "describing"
         /\ ret' = Loop(src)
         /\ Log(Event("describe", prompt, full_completion, src, lo, hi))
         /\ UNCHANGED pending
    ELSE /\ pc' = "awaiting"
         /\ ret' = Loop(src)
         /\ pending' = prompt
         /\ Log(Event("forward", prompt, EMPTY, src, lo, hi))

\* No temporary file.
NoTmp == [key |-> "", base |-> << >>, target |-> << >>, content |-> << >>]

\* Outside main, the role store and the session write: their state at rest.
NoFlags == [shell |-> FALSE, describe_shell |-> FALSE, code |-> FALSE,
            chat |-> FALSE, repl |-> FALSE, batch |-> FALSE,
            batch_exists |-> FALSE, batch_readable |-> FALSE, del_chat |-> "",
            del_chat_a |-> FALSE, interaction |-> FALSE]

ExtIdle ==
    /\ flags = NoFlags
    /\ mpc = "off"
    /\ questions = << >>
    /\ results = << >>
    /\ locked = {}
    /\ remaining = {}
    /\ roleFiles = {}
    /\ tmp = NoTmp
    /\ wpc = "off"

\* The REPL loop is not running.
ReplIdle ==
    /\ init_prompt = EMPTY
    /\ init_lines = << >>
    /\ i = 0
    /\ multiline_input = EMPTY
    /\ blockStart = 0
    /\ pending = EMPTY
    /\ ret = "tty"
    /\ pc = "off"
    /\ ttyLog = << >>

Init ==
    /\ roleName \in RoleNames
    /\ chat_id \in Keys
    /\ init_prompt \in InitPrompts
    /\ init_lines = << >>
    /\ i = 0
    /\ multiline_input = EMPTY
    /\ blockStart = 0
    /\ full_completion = EMPTY
    /\ pending = EMPTY
    /\ ret = "tty"
    /\ pc = "start"
    /\ store = [k \in Keys |-> Absent]
    /\ ttyLog = << >>
    /\ trace = << >>
    /\ ExtIdle

\* Lines 49-56: the pre-supplied block, if any, is split into lines.
Start ==
    /\ pc = "start"
    /\ UNCHANGED extVars
    /\ IF init_prompt # EMPTY
       THEN /\ init_lines' = Split(init_prompt)
            /\ pc' = "init"
            /\ UNCHANGED init_prompt
       ELSE /\ pc' = "tty"
            /\ UNCHANGED <<init_lines, init_prompt>>
    /\ UNCHANGED <<roleName, chat_id, i, multiline_input, blockStart,
                   full_completion, pending, ret, store, ttyLog, trace>>

\* InitStep with the loop condition i < row - 1: the last line is left over.
InitStep_StopsEarly ==
    /\ pc = "init"
    /\ UNCHANGED extVars
    /\ IF i < row - 1
       THEN LET prompt == init_lines[i + 1] IN
            /\ i' = i + 1
            /\ IF prompt = SENTINEL
               THEN /\ pc' = "init_multi"
                    /\ multiline_input' = EMPTY
                    /\ blockStart' = i + 1
                    /\ UNCHANGED <<pending, ret, trace>>
               ELSE /\ Dispatch(prompt, "init", i + 1, i + 1)
                    /\ UNCHANGED <<multiline_input, blockStart>>
            /\ UNCHANGED init_prompt
       ELSE /\ init_prompt' = EMPTY
            /\ pc' = "tty"
            /\ UNCHANGED <<i, multiline_input, blockStart, pending, ret, trace>>
    /\ UNCHANGED <<roleName, chat_id, init_lines, full_completion, store, ttyLog>>

\* Lines 57-76: one iteration of the loop over the pre-supplied lines.
InitStep ==
    /\ pc = "init"
    /\ UNCHANGED extVars
    /\ IF i < row
       THEN LET prompt == init_lines[i + 1] IN
            /\ i' = i + 1
            /\ IF prompt = SENTINEL
               THEN /\ pc' = "init_multi"
                    /\ multiline_input' = EMPTY
                    /\ blockStart' = i + 1
                    /\ UNCHANGED <<pending, ret, trace>>
               ELSE /\ Dispatch(prompt, "init", i + 1, i + 1)
                    /\ UNCHANGED <<multiline_input, blockStart>>
            /\ UNCHANGED init_prompt
       ELSE /\ init_prompt' = EMPTY
            /\ pc' = "tty"
            /\ UNCHANGED <<i, multiline_input, blockStart, pending, ret, trace>>
    /\ UNCHANGED <<roleName, chat_id, init_lines, full_completion, store, ttyLog>>

\* InitMultiStep where the lines of a block are joined without newlines.
InitMultiStep_NoNewline ==
    /\ pc = "init_multi"
    /\ UNCHANGED extVars
    /\ IF i >= row
       THEN /\ pc' = "crashed"
            /\ Log(Event("crash", EMPTY, EMPTY, "init", blockStart, i))
            /\ UNCHANGED <<i, multiline_input, pending, ret>>
       ELSE LET user_input == init_lines[i + 1] IN
            IF user_input # SENTINEL
            THEN /\ multiline_input' = multiline_input \o user_input
                 /\ i' = i + 1
                 /\ UNCHANGED <<pc, pending, ret, trace>>
            ELSE /\ i' = i + 1
                 /\ Dispatch(multiline_input, "init", blockStart, i + 1)
                 /\ UNCHANGED multiline_input
    /\ UNCHANGED <<roleName, chat_id, init_prompt, init_lines, blockStart,
                   full_completion, store, ttyLog>>

\* Lines 25-32: one iteration of _testmode_get_multiline_input; lines[i]
\* past the end of the list raises IndexError.
InitMultiStep ==
    /\ pc = "init_multi"
    /\ UNCHANGED extVars
    /\ IF i >= row
       THEN /\ pc' = "crashed"
            /\ Log(Event("crash", EMPTY, EMPTY, "init", blockStart, i))
            /\ UNCHANGED <<i, multiline_input, pending, ret>>
       ELSE LET user_input == init_lines[i + 1] IN
            IF user_input # SENTINEL
            THEN /\ multiline_input' = multiline_input \o user_input \o <<NL>>
                 /\ i' = i + 1
                 /\ UNCHANGED <<pc, pending, ret, trace>>
            ELSE /\ i' = i + 1
                 /\ Dispatch(multiline_input, "init", blockStart, i + 1)
                 /\ UNCHANGED multiline_input
    /\ UNCHANGED <<roleName, chat_id, init_prompt, init_lines, blockStart,
                   full_completion, store, ttyLog>>

\* Lines 82-97: the interactive loop after the line content is known.
TtyDispatch(prompt, lo, hi) ==
    IF prompt # EXIT /\ init_prompt # EMPTY
    THEN /\ Dispatch(init_prompt \o <<NL, NL, NL>> \o prompt, "tty", lo, hi)
         /\ init_prompt' = EMPTY
    ELSE /\ Dispatch(prompt, "tty", lo, hi)
         /\ UNCHANGED init_prompt

\* Lines 77-81: typer.prompt(">>>") returns a line the user typed.
TtyRead ==
    /\ pc = "tty"
    /\ UNCHANGED extVars
    /\ CanRead
    /\ \E line \in TtyLineSet :
        /\ ttyLog' = Append(ttyLog, line)
        /\ IF line = SENTINEL
           THEN /\ pc' = "tty_multi"
                /\ multiline_input' = EMPTY
                /\ blockStart' = Len(ttyLog) + 1
                /\ UNCHANGED <<pending, ret, trace, init_prompt>>
           ELSE /\ TtyDispatch(line, Len(ttyLog) + 1, Len(ttyLog) + 1)
                /\ UNCHANGED <<multiline_input, blockStart>>
    /\ UNCHANGED <<roleName, chat_id, init_lines, i, full_completion, store>>

\* TtyMultiRead where the typed lines of a block are joined without newlines.
TtyMultiRead_NoNewline ==
    /\ pc = "tty_multi"
    /\ UNCHANGED extVars
    /\ CanRead
    /\ \E user_input \in TtyLineSet :
        /\ ttyLog' = Append(ttyLog, user_input)
        /\ IF user_input # SENTINEL
           THEN /\ multiline_input' = multiline_input \o user_input
                /\ UNCHANGED <<pc, pending, ret, trace, init_prompt>>
           ELSE /\ TtyDispatch(multiline_input, blockStart, Len(ttyLog) + 1)
                /\ UNCHANGED multiline_input
    /\ UNCHANGED <<roleName, chat_id, init_lines, i, blockStart,
                   full_completion, store>>

\* Lines 18-23: one iteration of _get_multiline_input.
TtyMultiRead ==
    /\ pc = "tty_multi"
    /\ UNCHANGED extVars
    /\ CanRead
    /\ \E user_input \in TtyLineSet :
        /\ ttyLog' = Append(ttyLog, user_input)
        /\ IF user_input # SENTINEL
           THEN /\ multiline_input' = multiline_input \o user_input \o <<NL>>
                /\ UNCHANGED <<pc, pending, ret, trace, init_prompt>>
           ELSE /\ TtyDispatch(multiline_input, blockStart, Len(ttyLog) + 1)
                /\ UNCHANGED multiline_input
    /\ UNCHANGED <<roleName, chat_id, init_lines, i, blockStart,
                   full_completion, store>>

\* CompletionOk where the round is not written to the session.
CompletionOk_NotPersisted ==
    /\ pc = "awaiting"
    /\ UNCHANGED extVars
    /\ \E r \in Completions :
        /\ store' = store
        /\ full_completion' = r
        /\ Log(Event("ok", pending, r, ret, 0, 0))
    /\ pc' = ret
    /\ UNCHANGED <<roleName, chat_id, init_prompt, init_lines, i,
                   multiline_input, blockStart, pending, ret, ttyLog>>

\* CompletionOk where the result of handle is not assigned.
CompletionOk_ResultDropped ==
    /\ pc = "awaiting"
    /\ UNCHANGED extVars
    /\ \E r \in Completions :
        /\ store' = AppendRound(store, chat_id, roleName, pending, r)
        /\ full_completion' = full_completion
        /\ Log(Event("ok", pending, r, ret, 0, 0))
    /\ pc' = ret
    /\ UNCHANGED <<roleName, chat_id, init_prompt, init_lines, i,
                   multiline_input, blockStart, pending, ret, ttyLog>>

\* Lines 75 and 97: super().handle returns the completion; the round is
\* appended to the session and the result becomes full_completion.
CompletionOk ==
    /\ pc = "awaiting"
    /\ UNCHANGED extVars
    /\ \E r \in Completions :
        /\ store' = AppendRound(store, chat_id, roleName, pending, r)
        /\ full_completion' = r
        /\ Log(Event("ok", pending, r, ret, 0, 0))
    /\ pc' = ret
    /\ UNCHANGED <<roleName, chat_id, init_prompt, init_lines, i,
                   multiline_input, blockStart, pending, ret, ttyLog>>

\* CompletionFail where the exception is caught and the loop goes on.
CompletionFail_Swallowed ==
    /\ pc = "awaiting"
    /\ UNCHANGED extVars
    /\ pc' = ret
    /\ Log(Event("fail", pending, EMPTY, ret, 0, 0))
    /\ UNCHANGED <<roleName, chat_id, init_prompt, init_lines, i,
                   multiline_input, blockStart, full_completion, pending,
                   ret, store, ttyLog>>

\* Lines 75 and 97: the completion request raises; handle has no handler
\* for it, so the exception leaves handle.
CompletionFail ==
    /\ pc = "awaiting"
    /\ UNCHANGED extVars
    /\ pc' = "failed"
    /\ Log(Event("fail", pending, EMPTY, ret, 0, 0))
    /\ UNCHANGED <<roleName, chat_id, init_prompt, init_lines, i,
                   multiline_input, blockStart, full_completion, pending,
                   ret, store, ttyLog>>

\* DescribeOk where the description is assigned to full_completion.
DescribeOk_StoresDescription ==
    /\ pc = "describing"
    /\ UNCHANGED extVars
    /\ \E t \in Descriptions :
        /\ Log(Event("dok", full_completion, t, ret, 0, 0))
        /\ full_completion' = t
    /\ pc' = ret
    /\ UNCHANGED <<roleName, chat_id, init_prompt, init_lines, i,
                   multiline_input, blockStart, pending,
                   ret, store, ttyLog>>

\* Lines 71-73 and 93-95: the describe request returns; its text is shown.
DescribeOk ==
    /\ pc = "describing"
    /\ UNCHANGED extVars
    /\ \E t \in Descriptions :
        Log(Event("dok", full_completion, t, ret, 0, 0))
    /\ pc' = ret
    /\ UNCHANGED <<roleName, chat_id, init_prompt, init_lines, i,
                   multiline_input, blockStart, full_completion, pending,
                   ret, store, ttyLog>>

\* Lines 71-73 and 93-95: the describe request raises.
DescribeFail ==
    /\ pc = "describing"
    /\ UNCHANGED extVars
    /\ pc' = "failed"
    /\ Log(Event("dfail", full_completion, EMPTY, ret, 0, 0))
    /\ UNCHANGED <<roleName, chat_id, init_prompt, init_lines, i,
                   multiline_input, blockStart, full_completion, pending,
                   ret, store, ttyLog>>

\* Line 78: Ctrl+C while handle waits for a line or for the model.
Interrupt ==
    /\ pc \in {"tty", "tty_multi", "awaiting", "describing"}
    /\ UNCHANGED extVars
    /\ pc' = "interrupted"
    /\ UNCHANGED <<roleName, chat_id, init_prompt, init_lines, i,
                   multiline_input, blockStart, full_completion, pending,
                   ret, store, ttyLog, trace>>

Next ==
    \/ Start
    \/ InitStep
    \/ InitMultiStep
    \/ TtyRead
    \/ TtyMultiRead
    \/ CompletionOk
    \/ CompletionFail
    \/ DescribeOk
    \/ DescribeFail
    \/ Interrupt

Spec == Init /\ [][Next]_vars

TypeOK ==
    /\ roleName \in RoleNames
    /\ chat_id \in Keys
    /\ pc \in {"start", "init", "init_multi", "tty", "tty_multi", "awaiting",
               "describing", "exited", "failed", "crashed", "interrupted"}
    /\ i \in 0..row
    /\ row + Len(ttyLog) <= MaxLines

\* ------------------------------------------------ reading of the trace
DispatchOps == {"forward", "run", "describe", "exit"}
IsDispatch(ev) == ev.op \in DispatchOps
Dispatched(src) == SelectSeq(trace, LAMBDA ev : IsDispatch(ev) /\ ev.src = src)
OkEvents == SelectSeq(trace, LAMBDA ev : ev.op = "ok")
ForwardEvents == SelectSeq(trace, LAMBDA ev : ev.op = "forward")
Lines(src) == IF src = "init" THEN init_lines ELSE ttyLog
Consumed(src) == IF src = "init" THEN i ELSE Len(ttyLog)
LastHi(D) == IF Len(D) = 0 THEN 0 ELSE D[Len(D)].hi

\* Every line followed by a newline.
RECURSIVE BlockText(_)
BlockText(ls) ==
    IF Len(ls) = 0 THEN EMPTY ELSE ls[1] \o <<NL>> \o BlockText(Tail(ls))

\* The dispatches of one source cover its lines left to right without gap
\* or overlap, each being one line or one sentinel-delimited block.
Tiles(src) ==
    LET D == Dispatched(src)
        L == Lines(src)
    IN \A j \in 1..Len(D) :
          /\ D[j].lo = (IF j = 1 THEN 1 ELSE D[j - 1].hi + 1)
          /\ D[j].lo <= D[j].hi
          /\ D[j].hi <= Len(L)
          /\ D[j].lo = D[j].hi => D[j].prompt = L[D[j].lo]

\* Result of the last forward completed before position j of the trace.
RECURSIVE LastOkBefore(_)
LastOkBefore(j) ==
    IF j <= 1 THEN EMPTY
    ELSE IF trace[j - 1].op = "ok" THEN trace[j - 1].arg
    ELSE LastOkBefore(j - 1)

\* The session as the completed rounds of the trace make it.
RECURSIVE RoundsOf(_)
RoundsOf(oks) ==
    IF Len(oks) = 0 THEN << >>
    ELSE <<Message("user", oks[1].prompt), Message("assistant", oks[1].arg)>>
           \o RoundsOf(Tail(oks))

\* ----------------------------------------------------------------- C1
\* C1: the lines of a non-empty pre-supplied block are dispatched in their
\* original order, and no interactive line is read while a pre-supplied
\* line is still unconsumed.
C1_InitBlockBeforeTty ==
    /\ Tiles("init")
    /\ (Len(ttyLog) > 0 \/ pc \in {"tty", "tty_multi"}) => i = row
    /\ pc = "init" => i = LastHi(Dispatched("init"))
    /\ \A j \in 1..Len(trace) : \A k \in j..Len(trace) :
          trace[j].src = "tty" => trace[k].src = "tty"

C1_Witness ==
    /\ row >= 3
    /\ Len(ttyLog) >= 1
    /\ Len(Dispatched("init")) >= 2
    /\ \E j \in 1..Len(trace) : trace[j].src = "init" /\ trace[j].lo < trace[j].hi

\* ----------------------------------------------------------------- C2
\* C2: a line exit() outside a multi-line block is dispatched as exit and
\* ends the loop there: nothing is read or dispatched after it.
C2_ExitTerminates ==
    \A j \in 1..Len(trace) :
       /\ (IsDispatch(trace[j]) /\ trace[j].prompt = EXIT) => trace[j].op = "exit"
       /\ trace[j].op = "exit" =>
             /\ j = Len(trace)
             /\ pc = "exited"
             /\ trace[j].lo = trace[j].hi
             /\ Consumed(trace[j].src) = trace[j].hi
             /\ trace[j].src = "init" => ttyLog = << >>

C2_Witness ==
    /\ pc = "exited"
    /\ Len(trace) >= 3
    /\ \E j \in 1..Len(trace) : trace[j].op = "ok"

C2_WitnessInit ==
    /\ pc = "exited"
    /\ trace[Len(trace)].src = "init"
    /\ i < row

\* ----------------------------------------------------------------- C3
\* C3: the lines between an opening and a closing sentinel are dispatched
\* as exactly one forward whose prompt is each line followed by a newline.
C3_BlockForwardedOnce ==
    \A src \in {"init", "tty"} :
       LET D == Dispatched(src)
           L == Lines(src)
       IN /\ Tiles(src)
          /\ pc \in {"init", "tty"} /\ pc = Loop(src) => Consumed(src) = LastHi(D)
          /\ \A j \in 1..Len(D) :
                /\ D[j].lo = D[j].hi => L[D[j].lo] # SENTINEL
                /\ D[j].lo < D[j].hi =>
                      /\ L[D[j].lo] = SENTINEL
                      /\ L[D[j].hi] = SENTINEL
                      /\ \A k \in (D[j].lo + 1)..(D[j].hi - 1) : L[k] # SENTINEL
                      /\ D[j].op = "forward"
                      /\ D[j].prompt = BlockText(SubSeq(L, D[j].lo + 1, D[j].hi - 1))

C3_WitnessInit ==
    \E j \in 1..Len(trace) :
       /\ trace[j].op = "forward" /\ trace[j].src = "init"
       /\ trace[j].hi = trace[j].lo + 3
       /\ trace[j].prompt = <<"a", NL, "e", NL>>

C3_WitnessTty ==
    \E j \in 1..Len(trace) :
       /\ trace[j].op = "forward" /\ trace[j].src = "tty"
       /\ trace[j].hi = trace[j].lo + 3

\* ----------------------------------------------------------------- C4
\* C4: when the role is not the shell-command role, a line e or d is
\* forwarded to the model and its result becomes LastCompletion; nothing
\* is run and nothing is described.
C4_NoShellRoleForwards ==
    roleName # SHELL =>
       \A j \in 1..Len(trace) :
          /\ trace[j].op \notin {"run", "describe", "dok", "dfail"}
          /\ (IsDispatch(trace[j]) /\ trace[j].prompt \in {EXECUTE, DESCRIBE})
                => trace[j].op = "forward"
          /\ trace[j].op = "ok" =>
                /\ trace[j - 1].op = "forward"
                /\ trace[j].prompt = trace[j - 1].prompt
                /\ j = Len(trace) => full_completion = trace[j].arg

C4_Witness ==
    /\ roleName # SHELL
    /\ \E j \in 1..Len(trace) : \E k \in 1..Len(trace) :
          /\ trace[j].op = "ok" /\ trace[j].prompt = EXECUTE /\ trace[j].src = "init"
          /\ trace[k].op = "ok" /\ trace[k].prompt = DESCRIBE /\ trace[k].src = "tty"

\* ----------------------------------------------------------------- C5
\* C5: under the shell-command role every e runs the result of the most
\* recent completed forward, or the empty string if there is none.
C5_RunsLastCompletion ==
    roleName = SHELL =>
       \A j \in 1..Len(trace) :
          trace[j].op = "run" => trace[j].arg = LastOkBefore(j)

C5_Witness ==
    /\ roleName = SHELL
    /\ \E j \in 1..Len(trace) : \E k \in 1..Len(trace) :
          /\ j < k
          /\ trace[j].op = "ok" /\ trace[j].src = "init"
          /\ trace[k].op = "run" /\ trace[k].src = "tty"
          /\ trace[k].arg = trace[j].arg

C5_WitnessEmpty ==
    \E j \in 1..Len(trace) : trace[j].op = "run" /\ trace[j].arg = EMPTY

\* ----------------------------------------------------------------- C6
\* C6: a shell-execute or shell-describe dispatch, and the return of the
\* describe request, leave LastCompletion as it was.
C6_DescribeExecuteKeepCompletion ==
    [][(Len(trace') = Len(trace) + 1
          /\ trace'[Len(trace')].op \in {"run", "describe", "dok", "dfail"})
       => full_completion' = full_completion]_vars

C6_Witness ==
    /\ Len(trace) >= 4
    /\ trace[Len(trace)].op = "dok"
    /\ trace[Len(trace) - 2].op = "run"
    /\ full_completion # EMPTY
    /\ full_completion = LastOkBefore(Len(trace))

\* ----------------------------------------------------------------- C7
\* C7: a failed completion request of a forward ends the loop there: one
\* request only, no later line read or dispatched, and the stored session
\* holds every round completed before it.
C7_FailureTerminates ==
    \A j \in 1..Len(trace) :
       trace[j].op = "fail" =>
          /\ j = Len(trace)
          /\ pc = "failed"
          /\ trace[j - 1].op = "forward"
          /\ Consumed(trace[j - 1].src) = trace[j - 1].hi
          /\ trace[j - 1].src = "init" => ttyLog = << >>
          /\ Load(store, chat_id, roleName)
                = <<SystemMessage(roleName)>> \o RoundsOf(OkEvents)

C7_Witness ==
    /\ pc = "failed"
    /\ trace[Len(trace)].op = "fail"
    /\ Len(OkEvents) >= 2
    /\ i < row

\* ----------------------------------------------------------------- C8
\* C8: the round of a forward is stored before the next line is read: the
\* stored session always holds the rounds of all completed forwards, and
\* lacks the round of at most one forward, the one in flight.
C8_RoundStoredBeforeNextLine ==
    LET stored == Load(store, chat_id, roleName)
        nStored == (Len(stored) - 1) \div 2
        nForward == Len(ForwardEvents)
    IN /\ Len(stored) = 1 + 2 * nStored
       /\ nStored <= nForward
       /\ nForward <= nStored + 1
       /\ pc \in {"init", "init_multi", "tty", "tty_multi", "describing",
                  "exited", "crashed"} => nStored = nForward
       /\ nForward = nStored + 1 =>
             /\ trace[Len(trace)].op \in {"forward", "fail"}
             /\ pc \in {"awaiting", "failed", "interrupted"}
       /\ \A m \in 1..nStored :
             stored[2 * m].content = ForwardEvents[m].prompt

C8_Witness ==
    /\ pc = "interrupted"
    /\ Len(ForwardEvents) = 3
    /\ trace[Len(trace)].op = "forward"
    /\ Len(Load(store, chat_id, roleName)) = 5

\* ----------------------------------------------------------------- C9
\* C9: when the pre-supplied block ends inside an open multi-line block,
\* accumulation goes on with lines of the interactive source, the buffer
\* kept, and the loop does not fail.
C9_UnclosedBlockContinues ==
    [][(pc = "init_multi" /\ i >= row)
       => (pc' = "tty_multi" /\ multiline_input' = multiline_input)]_vars

\* ---------------------------------------------------------------- C10
\* C10: for every session key, load returns 1 + 2n messages after n
\* rounds: the role's system message, then the rounds in append order,
\* each a user message followed by its assistant message.
C10_LoadIsSeedPlusRounds ==
    \A k \in Keys :
       LET oks == IF k = chat_id THEN OkEvents ELSE << >>
           n == Len(oks)
           h == Load(store, k, roleName)
       IN /\ Len(h) = 1 + 2 * n
          /\ h[1] = SystemMessage(roleName)
          /\ \A m \in 1..n :
                /\ h[2 * m] = Message("user", oks[m].prompt)
                /\ h[2 * m + 1] = Message("assistant", oks[m].arg)

C10_Witness ==
    /\ Len(OkEvents) = 3
    /\ Len(Load(store, chat_id, roleName)) = 7
    /\ OkEvents[1].arg # OkEvents[2].arg
    /\ \E k \in Keys : store[k] = Absent

\* =================================================== the session write
\* Most rounds a stored session holds.
MaxRounds == 2

\* A file that was opened for writing and not completely written.
Torn == <<[role |-> "torn", content |-> << >>]>>

RECURSIVE SessionOf(_, _)
SessionOf(name, rounds) ==
    IF Len(rounds) = 0 THEN <<SystemMessage(name)>>
    ELSE SessionOf(name, SubSeq(rounds, 1, Len(rounds) - 1))
           \o <<Message("user", <<"a">>), Message("assistant", rounds[Len(rounds)])>>

\* The sessions a store may hold for a role: absent, or complete lists.
StoredSessions(name) ==
    {Absent} \cup {SessionOf(name, rs) : rs \in SeqsUpTo(Completions, MaxRounds - 1)}

\* A complete list: the system message, then user/assistant pairs.
WellFormed(list) ==
    /\ list # Absent
    /\ list # Torn
    /\ Len(list) % 2 = 1
    /\ list[1].role = "system"
    /\ \A m \in 1..((Len(list) - 1) \div 2) :
          list[2 * m].role = "user" /\ list[2 * m + 1].role = "assistant"

InitWrite ==
    /\ roleName \in RoleNames
    /\ chat_id \in Keys
    /\ ReplIdle
    /\ full_completion = EMPTY
    /\ trace = << >>
    /\ store \in [Keys -> StoredSessions(roleName)]
    /\ flags = NoFlags
    /\ mpc = "off"
    /\ questions = << >>
    /\ results = << >>
    /\ locked = {}
    /\ remaining = {}
    /\ roleFiles = {}
    /\ tmp = NoTmp
    /\ wpc = "idle"

\* WriteOpen where the session file itself is opened for writing.
WriteOpen_InPlace ==
    /\ wpc = "idle"
    /\ Len(Load(store, chat_id, roleName)) < 1 + 2 * MaxRounds
    /\ \E user \in {<<"a">>, EXECUTE} : \E assistant \in Completions :
          tmp' = [key |-> chat_id,
                  base |-> store[chat_id],
                  target |-> AppendRound(store, chat_id, roleName, user, assistant)[chat_id],
                  content |-> Torn]
    /\ store' = [store EXCEPT ![chat_id] = Torn]
    /\ wpc' = "writing"
    /\ UNCHANGED <<replVars, mainVars, roleFiles, full_completion, trace>>

\* append_round, first step: the new list is computed and a temporary
\* file is opened for it; the session file is not touched.
WriteOpen ==
    /\ wpc = "idle"
    /\ Len(Load(store, chat_id, roleName)) < 1 + 2 * MaxRounds
    /\ \E user \in {<<"a">>, EXECUTE} : \E assistant \in Completions :
          tmp' = [key |-> chat_id,
                  base |-> store[chat_id],
                  target |-> AppendRound(store, chat_id, roleName, user, assistant)[chat_id],
                  content |-> Torn]
    /\ store' = store
    /\ wpc' = "writing"
    /\ UNCHANGED <<replVars, mainVars, roleFiles, full_completion, trace>>

\* append_round, second step: the temporary file holds the whole list.
WriteFlush ==
    /\ wpc = "writing"
    /\ tmp' = [tmp EXCEPT !.content = tmp.target]
    /\ wpc' = "written"
    /\ UNCHANGED <<replVars, mainVars, roleFiles, full_completion, trace, store>>

\* append_round, last step: the temporary file replaces the session file.
WriteReplace ==
    /\ wpc = "written"
    /\ store' = [store EXCEPT ![tmp.key] = tmp.content]
    /\ tmp' = NoTmp
    /\ wpc' = "idle"
    /\ UNCHANGED <<replVars, mainVars, roleFiles, full_completion, trace>>

\* The process is killed or interrupted at any step of the write.
WriteCrash ==
    /\ wpc \in {"writing", "written"}
    /\ wpc' = "crashed"
    /\ UNCHANGED <<replVars, mainVars, roleFiles, full_completion, trace, store, tmp>>

NextWrite ==
    \/ WriteOpen
    \/ WriteFlush
    \/ WriteReplace
    \/ WriteCrash

SpecWrite == InitWrite /\ [][NextWrite]_vars

\* ---------------------------------------------------------------- C11
\* C11: at every step of append_round, also after a crash, the session
\* file holds the complete list from before the round or the complete
\* list with the round, never a partly written one.
C11_WriteIsAtomic ==
    /\ \A k \in Keys : store[k] = Absent \/ WellFormed(store[k])
    /\ tmp # NoTmp =>
          /\ (store[tmp.key] = tmp.base \/ store[tmp.key] = tmp.target)
          /\ WellFormed(tmp.target)
          /\ Len(tmp.target) = Len(Load([store EXCEPT ![tmp.key] = tmp.base],
                                        tmp.key, roleName)) + 2

C11_Witness ==
    /\ wpc = "crashed"
    /\ tmp # NoTmp
    /\ tmp.content = Torn
    /\ tmp.base # Absent
    /\ store[tmp.key] = tmp.base

\* ================================================================ main
\* Most questions of a batch file.
MaxQuestions == 3
\* Most answers the user gives to the execute/modify/describe/abort prompt.
MaxChoices == 3

DESCRIBE_SHELL == "Shell Command Descriptor"
CODE == "Code Generator"

\* DefaultRoles.check_get: the first of the three flags that is set wins.
CheckGet(shell, describe_shell, code) ==
    IF shell THEN SHELL
    ELSE IF describe_shell THEN DESCRIBE_SHELL
    ELSE IF code THEN CODE
    ELSE DEFAULT

QuestionLists == {[j \in 1..n |-> <<"q", j>>] : n \in 0..MaxQuestions}

\* The invocations of main: an option that cannot matter keeps its default.
FlagSets ==
    {f \in [shell : BOOLEAN, describe_shell : BOOLEAN, code : BOOLEAN,
            chat : BOOLEAN, repl : BOOLEAN, batch : BOOLEAN,
            batch_exists : BOOLEAN, batch_readable : BOOLEAN,
            del_chat : {""} \cup Keys, del_chat_a : BOOLEAN,
            interaction : BOOLEAN] :
        /\ f.batch_exists => f.batch
        /\ f.batch_readable => f.batch_exists
        /\ ~f.shell => f.interaction}

InitMain ==
    /\ flags \in FlagSets
    /\ mpc = "del_chat"
    /\ questions \in (IF flags.batch_readable THEN QuestionLists ELSE {<< >>})
    /\ results = << >>
    /\ store \in (IF flags.del_chat # "" \/ flags.del_chat_a
                  THEN [Keys -> {Absent, SessionOf(DEFAULT, << >>)}]
                  ELSE {[k \in Keys |-> Absent]})
    /\ locked \in (IF flags.del_chat_a THEN SUBSET Keys ELSE {{}})
    /\ remaining = {}
    /\ roleName = DEFAULT
    /\ chat_id = "temp"
    /\ ReplIdle
    /\ full_completion = EMPTY
    /\ trace = << >>
    /\ roleFiles = {}
    /\ tmp = NoTmp
    /\ wpc = "off"

MainEvent(op, prompt, arg) == Event(op, prompt, arg, "main", 0, 0)

\* delete(key) of the session store: the record of the key is removed.
Invalidate(st, key) == [st EXCEPT ![key] = Absent]

\* MainDelChat where a missing session is passed over in silence.
MainDelChat_IgnoresMissing ==
    /\ mpc = "del_chat"
    /\ mpc' = "del_all"
    /\ store' = (IF flags.del_chat # "" THEN Invalidate(store, flags.del_chat) ELSE store)
    /\ UNCHANGED <<replVars, flags, questions, results, locked, remaining,
                   roleFiles, writeVars, full_completion, trace>>

\* Lines 291-292: --del-chat removes one session; an unknown key fails.
MainDelChat ==
    /\ mpc = "del_chat"
    /\ IF flags.del_chat # "" /\ store[flags.del_chat] = Absent
       THEN /\ mpc' = "not_found"
            /\ store' = store
       ELSE /\ mpc' = "del_all"
            /\ store' = (IF flags.del_chat # ""
                         THEN Invalidate(store, flags.del_chat) ELSE store)
    /\ UNCHANGED <<replVars, flags, questions, results, locked, remaining,
                   roleFiles, writeVars, full_completion, trace>>

\* Lines 293-297: --del-chat-a asks for confirmation; a refusal aborts.
MainDelAllConfirm ==
    /\ mpc = "del_all"
    /\ IF ~flags.del_chat_a
       THEN /\ mpc' = "batch"
            /\ UNCHANGED <<remaining, trace>>
       ELSE \E answer \in BOOLEAN :
               IF answer
               THEN /\ mpc' = "unlinking"
                    /\ remaining' = {k \in Keys : store[k] # Absent}
                    /\ Log(MainEvent("confirm", <<"yes">>, EMPTY))
               ELSE /\ mpc' = "aborted"
                    /\ Log(MainEvent("confirm", <<"no">>, EMPTY))
                    /\ UNCHANGED remaining
    /\ UNCHANGED <<replVars, flags, questions, results, locked, roleFiles,
                   writeVars, full_completion, store>>

\* MainUnlink where the first OSError leaves the loop.
MainUnlink_StopsAtFailure ==
    /\ mpc = "unlinking"
    /\ remaining # {}
    /\ \E item \in remaining :
          /\ IF item \in locked
             THEN /\ Log(MainEvent("unlink_fail", <<item>>, EMPTY))
                  /\ remaining' = {}
                  /\ store' = store
             ELSE /\ Log(MainEvent("unlink_ok", <<item>>, EMPTY))
                  /\ remaining' = remaining \ {item}
                  /\ store' = [store EXCEPT ![item] = Absent]
    /\ UNCHANGED <<replVars, flags, mpc, questions, results, locked, roleFiles,
                   writeVars, full_completion>>

\* Lines 298-304: one iteration over CHAT_CACHE_PATH; OSError is reported
\* for the file and the loop goes on.
MainUnlink ==
    /\ mpc = "unlinking"
    /\ remaining # {}
    /\ \E item \in remaining :
          /\ remaining' = remaining \ {item}
          /\ IF item \in locked
             THEN /\ Log(MainEvent("unlink_fail", <<item>>, EMPTY))
                  /\ store' = store
             ELSE /\ Log(MainEvent("unlink_ok", <<item>>, EMPTY))
                  /\ store' = [store EXCEPT ![item] = Absent]
    /\ UNCHANGED <<replVars, flags, mpc, questions, results, locked, roleFiles,
                   writeVars, full_completion>>

\* Lines 305-306: after the loop main reports and exits with code 0.
MainDelAllDone ==
    /\ mpc = "unlinking"
    /\ remaining = {}
    /\ mpc' = "exit0"
    /\ Log(MainEvent("all_deleted", EMPTY, EMPTY))
    /\ UNCHANGED <<replVars, flags, questions, results, locked, remaining,
                   roleFiles, writeVars, full_completion, store>>

\* --------------------------------------------------------------- batch
\* The Python value None, which is no text.
None == <<"None">>
\* str(e) of the exceptions a completion request raises: a message, or
\* the empty text of an exception raised without arguments.
FailMessages == {<<"m">>, EMPTY}

\* error or "": None and the empty text both give the empty text.
OrEmpty(error) == IF error = None \/ error = EMPTY THEN EMPTY ELSE error

\* Lines 104-117: BatchProcessor.add_result.
AddResult(rs, question, answer, error) ==
    Append(rs, [question |-> question, answer |-> answer, error |-> OrEmpty(error)])

RECURSIVE CountErrors(_)
CountErrors(rs) ==
    IF Len(rs) = 0 THEN 0
    ELSE (IF rs[1].error # EMPTY THEN 1 ELSE 0) + CountErrors(Tail(rs))

\* Lines 209-213: the counts print_summary shows.
SummaryTotal(rs) == Len(rs)
SummaryFailed(rs) == CountErrors(rs)
SummarySuccess(rs) == Len(rs) - CountErrors(rs)

\* Lines 312-344: the batch mode is entered before any other check.
MainBatchEnter ==
    /\ mpc = "batch"
    /\ IF ~flags.batch
       THEN /\ mpc' = "checks"
            /\ UNCHANGED roleName
       ELSE IF ~flags.batch_exists
       THEN /\ mpc' = "usage_error"
            /\ UNCHANGED roleName
       ELSE IF flags.chat \/ flags.repl
       THEN /\ mpc' = "usage_error"
            /\ UNCHANGED roleName
       ELSE IF flags.batch_readable
       THEN /\ mpc' = "batch_loop"
            /\ roleName' = CheckGet(flags.shell, flags.describe_shell, flags.code)
       ELSE /\ mpc' = "exit1"
            /\ UNCHANGED roleName
    /\ UNCHANGED <<chat_id, init_prompt, init_lines, i, multiline_input,
                   blockStart, pending, ret, pc, ttyLog, flags, questions,
                   results, locked, remaining, roleFiles, writeVars,
                   full_completion, store, trace>>

\* BatchStep where a failure of the handler leaves process_batch_questions.
BatchStep_FailurePropagates ==
    /\ mpc = "batch_loop"
    /\ Len(results) < Len(questions)
    /\ LET question == questions[Len(results) + 1] IN
       \/ \E answer \in Completions :
             /\ results' = AddResult(results, question, answer, None)
             /\ Log(MainEvent("b_ok", question, answer))
             /\ UNCHANGED mpc
       \/ \E msg \in FailMessages :
             /\ results' = results
             /\ Log(MainEvent("b_fail", question, msg))
             /\ mpc' = "exit1"
    /\ UNCHANGED <<replVars, flags, questions, locked, remaining, roleFiles,
                   writeVars, full_completion, store>>

\* Lines 254-261 and 263-269: one question of process_batch_questions;
\* both loops handle a question the same way.
BatchStep ==
    /\ mpc = "batch_loop"
    /\ Len(results) < Len(questions)
    /\ LET question == questions[Len(results) + 1] IN
       \/ \E answer \in Completions :
             /\ results' = AddResult(results, question, answer, None)
             /\ Log(MainEvent("b_ok", question, answer))
       \/ \E msg \in FailMessages :
             /\ results' = AddResult(results, question, EMPTY, msg)
             /\ Log(MainEvent("b_fail", question, msg))
    /\ UNCHANGED <<replVars, flags, mpc, questions, locked, remaining,
                   roleFiles, writeVars, full_completion, store>>

\* Lines 271 and 358-372: the processor is returned, the results are
\* saved, the summary is printed and main exits with code 0.
BatchDone ==
    /\ mpc = "batch_loop"
    /\ Len(results) = Len(questions)
    /\ mpc' = "exit0"
    /\ Log(MainEvent("summary", EMPTY, EMPTY))
    /\ UNCHANGED <<replVars, flags, questions, results, locked, remaining,
                   roleFiles, writeVars, full_completion, store>>

\* ------------------------------------------------- checks and dispatch
Conflict(f) ==
    \/ (IF f.shell THEN 1 ELSE 0) + (IF f.describe_shell THEN 1 ELSE 0)
         + (IF f.code THEN 1 ELSE 0) > 1
    \/ f.chat /\ f.repl

\* Lines 377-383: more than one of the three modes, or chat with repl.
MainChecks ==
    /\ mpc = "checks"
    /\ mpc' = (IF Conflict(flags) THEN "usage_error" ELSE "role")
    /\ UNCHANGED <<replVars, flags, questions, results, locked, remaining,
                   roleFiles, writeVars, full_completion, store, trace>>

\* Lines 397-432: the role is resolved; --repl starts the REPL loop,
\* otherwise one completion request is issued.
MainRole ==
    /\ mpc = "role"
    /\ roleName' = CheckGet(flags.shell, flags.describe_shell, flags.code)
    /\ IF flags.repl
       THEN /\ mpc' = "in_repl"
            /\ Log(MainEvent("repl", EMPTY, EMPTY))
       ELSE /\ mpc' = "completing"
            /\ Log(MainEvent("request", <<"a">>, EMPTY))
    /\ UNCHANGED <<chat_id, init_prompt, init_lines, i, multiline_input,
                   blockStart, pending, ret, pc, ttyLog, flags, questions,
                   results, locked, remaining, roleFiles, writeVars,
                   full_completion, store>>

\* Lines 415-432: the handler returns the completion.
MainCompletionOk ==
    /\ mpc = "completing"
    /\ \E r \in Completions :
          /\ full_completion' = r
          /\ store' = (IF flags.chat
                       THEN AppendRound(store, chat_id, roleName, <<"a">>, r)
                       ELSE store)
          /\ Log(MainEvent("ok", <<"a">>, r))
    /\ mpc' = "shell_loop"
    /\ UNCHANGED <<replVars, flags, questions, results, locked, remaining,
                   roleFiles, writeVars>>

\* Lines 415-432: the handler raises.
MainCompletionFail ==
    /\ mpc = "completing"
    /\ mpc' = "failed"
    /\ Log(MainEvent("fail", <<"a">>, EMPTY))
    /\ UNCHANGED <<replVars, flags, questions, results, locked, remaining,
                   roleFiles, writeVars, full_completion, store>>

\* ------------------------------------------------ the shell choice loop
Options == {<<"e">>, <<"m">>, <<"d">>, <<"a">>, <<"y">>}
\* Texts the user may leave in the editing prompt of [M]odify.
Edits == {<<"c1">>, <<"c2">>}

ChoiceEvents == SelectSeq(trace, LAMBDA ev : ev.op = "choice")

\* MainShellLoop where the loop asks again after the command was run.
MainShellLoop_RunContinues ==
    /\ mpc = "shell_loop"
    /\ IF ~(flags.shell /\ flags.interaction)
       THEN /\ mpc' = "done"
            /\ UNCHANGED <<full_completion, trace>>
       ELSE /\ Len(ChoiceEvents) < MaxChoices
            /\ \E option \in Options :
                  LET choice == MainEvent("choice", option, full_completion) IN
                  IF option \in {<<"e">>, <<"y">>}
                  THEN /\ trace' = trace \o <<choice, MainEvent("run", option, full_completion)>>
                       /\ UNCHANGED <<mpc, full_completion>>
                  ELSE IF option = <<"m">>
                  THEN \E text \in Edits :
                          /\ full_completion' = text
                          /\ trace' = trace \o <<choice, MainEvent("modify", option, text)>>
                          /\ UNCHANGED mpc
                  ELSE IF option = <<"d">>
                  THEN /\ trace' = trace \o <<choice, MainEvent("describe", option, full_completion)>>
                       /\ mpc' = "describing_cmd"
                       /\ UNCHANGED full_completion
                  ELSE /\ trace' = Append(trace, choice)
                       /\ mpc' = "done"
                       /\ UNCHANGED full_completion
    /\ UNCHANGED <<replVars, flags, questions, results, locked, remaining,
                   roleFiles, writeVars, store>>

\* Lines 436-460: one pass of the loop `while shell and interaction`.
MainShellLoop ==
    /\ mpc = "shell_loop"
    /\ IF ~(flags.shell /\ flags.interaction)
       THEN /\ mpc' = "done"
            /\ UNCHANGED <<full_completion, trace>>
       ELSE /\ Len(ChoiceEvents) < MaxChoices
            /\ \E option \in Options :
                  LET choice == MainEvent("choice", option, full_completion) IN
                  IF option \in {<<"e">>, <<"y">>}
                  THEN /\ trace' = trace \o <<choice, MainEvent("run", option, full_completion)>>
                       /\ mpc' = "done"
                       /\ UNCHANGED full_completion
                  ELSE IF option = <<"m">>
                  THEN \E text \in Edits :
                          /\ full_completion' = text
                          /\ trace' = trace \o <<choice, MainEvent("modify", option, text)>>
                          /\ UNCHANGED mpc
                  ELSE IF option = <<"d">>
                  THEN /\ trace' = trace \o <<choice, MainEvent("describe", option, full_completion)>>
                       /\ mpc' = "describing_cmd"
                       /\ UNCHANGED full_completion
                  ELSE /\ trace' = Append(trace, choice)
                       /\ mpc' = "done"
                       /\ UNCHANGED full_completion
    /\ UNCHANGED <<replVars, flags, questions, results, locked, remaining,
                   roleFiles, writeVars, store>>

\* Lines 450-459: the describe request returns and the loop continues.
ShellDescribeOk ==
    /\ mpc = "describing_cmd"
    /\ \E t \in Descriptions : Log(MainEvent("dok", full_completion, t))
    /\ mpc' = "shell_loop"
    /\ UNCHANGED <<replVars, flags, questions, results, locked, remaining,
                   roleFiles, writeVars, full_completion, store>>

\* Lines 450-459: the describe request raises.
ShellDescribeFail ==
    /\ mpc = "describing_cmd"
    /\ mpc' = "failed"
    /\ Log(MainEvent("dfail", full_completion, EMPTY))
    /\ UNCHANGED <<replVars, flags, questions, results, locked, remaining,
                   roleFiles, writeVars, full_completion, store>>

NextMain ==
    \/ MainDelChat
    \/ MainDelAllConfirm
    \/ MainUnlink
    \/ MainDelAllDone
    \/ MainBatchEnter
    \/ BatchStep
    \/ BatchDone
    \/ MainChecks
    \/ MainRole
    \/ MainCompletionOk
    \/ MainCompletionFail
    \/ MainShellLoop
    \/ ShellDescribeOk
    \/ ShellDescribeFail

SpecMain == InitMain /\ [][NextMain]_vars

\* ---------------------------------------------------------------- C12
\* C12: deleting a session key that is not stored fails with a not-found
\* error and leaves every session as it was; deleting a known key removes
\* that record and no other.
C12_DeleteOneOrFail ==
    [][(mpc = "del_chat" /\ flags.del_chat # "") =>
          IF store[flags.del_chat] = Absent
          THEN mpc' = "not_found" /\ store' = store
          ELSE /\ mpc' # "not_found"
               /\ store'[flags.del_chat] = Absent
               /\ \A k \in Keys \ {flags.del_chat} : store'[k] = store[k]]_vars

C12_Witness ==
    /\ mpc = "not_found"
    /\ \E k \in Keys : store[k] # Absent

\* ---------------------------------------------------------------- C17
\* C17: a confirmed delete-all visits every session record; a record
\* whose removal fails is reported and the others are still removed, and
\* main exits normally; a declined confirmation removes nothing.
C17_DeleteAllVisitsEvery ==
    [][/\ (mpc = "del_all" /\ flags.del_chat_a) =>
             \/ mpc' = "aborted" /\ store' = store /\ remaining' = {}
             \/ mpc' = "unlinking" /\ store' = store
                  /\ remaining' = {k \in Keys : store[k] # Absent}
       /\ (mpc = "unlinking" /\ remaining # {}) =>
             /\ mpc' = "unlinking"
             /\ \E item \in remaining :
                   /\ remaining' = remaining \ {item}
                   /\ trace'[Len(trace')].prompt = <<item>>
                   /\ IF item \in locked
                      THEN store' = store /\ trace'[Len(trace')].op = "unlink_fail"
                      ELSE store' = Invalidate(store, item)
                             /\ trace'[Len(trace')].op = "unlink_ok"
       /\ (mpc = "unlinking" /\ remaining = {}) =>
             /\ mpc' = "exit0"
             /\ \A k \in Keys : store'[k] = Absent \/ k \in locked]_vars

C17_Witness ==
    /\ mpc = "exit0"
    /\ Len(trace) = 4
    /\ trace[2].op = "unlink_fail"
    /\ trace[3].op = "unlink_ok"
    /\ trace[4].op = "all_deleted"

\* ---------------------------------------------------------------- C13
\* C13: process_batch_questions gives one result per question, in the
\* order of the questions; a failing question is recorded in its result,
\* the failure does not leave the batch and the later questions are
\* still processed.
BatchEvents == SelectSeq(trace, LAMBDA ev : ev.op \in {"b_ok", "b_fail"})

C13_BatchKeepsGoing ==
    LET B == BatchEvents IN
    /\ Len(results) = Len(B)
    /\ Len(results) <= Len(questions)
    /\ \A j \in 1..Len(results) :
          /\ results[j].question = questions[j]
          /\ B[j].prompt = questions[j]
          /\ B[j].op = "b_fail" =>
                results[j].answer = EMPTY /\ results[j].error = B[j].arg
          /\ B[j].op = "b_ok" =>
                results[j].answer = B[j].arg /\ results[j].error = EMPTY
    /\ Len(B) > 0 => mpc \in {"batch_loop", "exit0"}
    /\ (mpc = "exit0" /\ Len(trace) > 0 /\ trace[Len(trace)].op = "summary")
          => Len(results) = Len(questions)

C13_Witness ==
    /\ mpc = "exit0"
    /\ Len(results) = 3
    /\ BatchEvents[1].op = "b_ok"
    /\ BatchEvents[2].op = "b_fail"
    /\ BatchEvents[3].op = "b_ok"

\* ---------------------------------------------------------------- C14
\* C14: a result has a non-empty error exactly when its question failed,
\* so the summary counts the failing questions as failed, the others as
\* successful, and the two counts add up to the number of questions.
C14_ErrorIffFailed ==
    LET B == BatchEvents
        failing == Len(SelectSeq(B, LAMBDA ev : ev.op = "b_fail"))
    IN /\ \A j \in 1..Len(results) :
             (results[j].error # EMPTY) <=> (B[j].op = "b_fail")
       /\ (mpc = "exit0" /\ Len(trace) > 0 /\ trace[Len(trace)].op = "summary") =>
             /\ SummaryFailed(results) = failing
             /\ SummarySuccess(results) = Len(questions) - failing
             /\ SummarySuccess(results) + SummaryFailed(results) = Len(questions)

\* ---------------------------------------------------------------- C15
\* C15: an invocation with conflicting flags (no delete option, and a
\* batch file, if one is given, that can be read) ends in a usage error,
\* whatever other options are given: no completion request is issued, no
\* REPL loop is started, no command is run.
C15_ConflictIsUsageError ==
    (/\ Conflict(flags)
     /\ flags.del_chat = "" /\ ~flags.del_chat_a
     /\ flags.batch => flags.batch_readable) =>
       /\ \A j \in 1..Len(trace) :
             trace[j].op \notin {"request", "b_ok", "b_fail", "repl", "run"}
       /\ mpc \notin {"exit0", "exit1", "done", "failed", "in_repl"}

\* ---------------------------------------------------------------- C20
\* C20: in the shell choice loop the command is run at most once, as the
\* answer to e or y, and the loop then ends; a ends it without a run; m
\* and d keep it asking; d leaves the command as it is; the command run
\* is the one the last m left.
RECURSIVE CommandBefore(_)
CommandBefore(j) ==
    IF j <= 1 THEN EMPTY
    ELSE IF trace[j - 1].op \in {"modify", "ok"} THEN trace[j - 1].arg
    ELSE CommandBefore(j - 1)

C20_RunOnceOnExecute ==
    /\ Cardinality({j \in 1..Len(trace) : trace[j].op = "run"}) <= 1
    /\ \A j \in 1..Len(trace) :
          /\ trace[j].op = "run" =>
                /\ j = Len(trace)
                /\ mpc = "done"
                /\ trace[j - 1].op = "choice"
                /\ trace[j - 1].prompt \in {<<"e">>, <<"y">>}
                /\ trace[j].arg = CommandBefore(j)
          /\ trace[j].op = "choice" =>
                /\ flags.shell /\ flags.interaction
                /\ trace[j].prompt = <<"a">> => j = Len(trace) /\ mpc = "done"
                /\ trace[j].prompt \in {<<"e">>, <<"y">>} => trace[j + 1].op = "run"
                /\ trace[j].prompt = <<"m">> =>
                      /\ trace[j + 1].op = "modify"
                      /\ j + 1 = Len(trace) =>
                            mpc = "shell_loop" /\ full_completion = trace[j + 1].arg
                /\ trace[j].prompt = <<"d">> =>
                      /\ trace[j + 1].op = "describe"
                      /\ trace[j + 1].arg = CommandBefore(j)
                      /\ j + 1 = Len(trace) => mpc = "describing_cmd"
          /\ (trace[j].op = "dok" /\ j = Len(trace)) =>
                mpc = "shell_loop" /\ full_completion = CommandBefore(j)

C20_Witness ==
    /\ mpc = "done"
    /\ Len(trace) >= 9
    /\ trace[Len(trace)].op = "run"
    /\ trace[Len(trace)].arg = <<"c2">>
    /\ \E j \in 1..Len(trace) : trace[j].op = "dok"
    /\ \E j \in 1..Len(trace) : trace[j].op = "modify"

\* ------------------------------------------------------ the role store
\* Most role operations of one run.
MaxRoleOps == 3

\* Line 43: ROLE_TEMPLATE.format(name=..., role=...).
RoleTemplate(name, role) == <<"You are ", name, NL>> \o role

\* Lines 65-70: the four default roles, each with its own text.
DefaultRoleTexts ==
    [n \in {DEFAULT, SHELL, DESCRIBE_SHELL, CODE} |-> <<"text of", n>>]

DefaultNames == DOMAIN DefaultRoleTexts

\* Names given to --create-role and descriptions the user types.
CreateNames == {DEFAULT, "r1"}
RoleTexts == {<<"x">>, <<"y">>}

\* Lines 136-142: the file <name>.json is there.
Exists(files, name) == \E r \in files : r.name = name

\* Lines 151-152: write_text replaces the content of <name>.json.
WriteRole(files, name, role) ==
    {r \in files : r.name # name}
        \cup {[name |-> name, role |-> RoleTemplate(name, role)]}

RoleEvent(op, name, answer) == Event(op, <<name>>, answer, "role", 0, 0)

RoleFrame ==
    UNCHANGED <<replVars, full_completion, store, mainVars, writeVars>>

InitRole ==
    /\ roleName = DEFAULT
    /\ chat_id = "temp"
    /\ full_completion = EMPTY
    /\ store = [k \in Keys |-> Absent]
    /\ trace = << >>
    /\ ReplIdle
    /\ ExtIdle

\* Lines 61-72: every default role that has no file is saved.
CreateDefaults ==
    /\ Len(trace) < MaxRoleOps
    /\ roleFiles' = roleFiles \cup
          {[name |-> n, role |-> RoleTemplate(n, DefaultRoleTexts[n])] :
              n \in {m \in DefaultNames : ~Exists(roleFiles, m)}}
    /\ Log(RoleEvent("defaults", "", EMPTY))
    /\ RoleFrame

\* CreateRole where a declined confirmation does not stop the write.
CreateRole_DeclinedStillSaves ==
    /\ Len(trace) < MaxRoleOps
    /\ \E name \in CreateNames, role \in RoleTexts :
          IF Exists(roleFiles, name)
          THEN \E answer \in {<<"yes">>, <<"no">>} :
                  /\ Log(RoleEvent("create", name, answer))
                  /\ roleFiles' = WriteRole(roleFiles, name, role)
          ELSE /\ Log(RoleEvent("create", name, EMPTY))
               /\ roleFiles' = WriteRole(roleFiles, name, role)
    /\ RoleFrame

\* Lines 81-86 and 144-152: create asks for the description and saves;
\* _save asks before it overwrites, and a refusal aborts.
CreateRole ==
    /\ Len(trace) < MaxRoleOps
    /\ \E name \in CreateNames, role \in RoleTexts :
          IF Exists(roleFiles, name)
          THEN \E answer \in {<<"yes">>, <<"no">>} :
                  /\ Log(RoleEvent("create", name, answer))
                  /\ roleFiles' = IF answer = <<"yes">>
                                  THEN WriteRole(roleFiles, name, role)
                                  ELSE roleFiles
          ELSE /\ Log(RoleEvent("create", name, EMPTY))
               /\ roleFiles' = WriteRole(roleFiles, name, role)
    /\ RoleFrame

\* Lines 154-160: delete asks before it removes an existing file; the
\* unlink of a missing file raises.
DeleteRole ==
    /\ Len(trace) < MaxRoleOps
    /\ \E name \in CreateNames :
          IF Exists(roleFiles, name)
          THEN \E answer \in {<<"yes">>, <<"no">>} :
                  /\ Log(RoleEvent("delete", name, answer))
                  /\ roleFiles' = IF answer = <<"yes">>
                                  THEN {r \in roleFiles : r.name # name}
                                  ELSE roleFiles
          ELSE /\ Log(RoleEvent("delete_missing", name, EMPTY))
               /\ roleFiles' = roleFiles
    /\ RoleFrame

NextRole ==
    \/ CreateDefaults
    \/ CreateRole
    \/ DeleteRole

SpecRole == InitRole /\ [][NextRole]_vars

\* ---------------------------------------------------------------- C16
\* C16: a stored role record is replaced or removed only in a step that
\* got the confirmation "yes" for its name; a declined confirmation
\* leaves the store as it was; create_defaults changes no existing
\* record; the store never holds two records of one name.
OneRecordPerName ==
    \A r1 \in roleFiles, r2 \in roleFiles : r1.name = r2.name => r1 = r2

C16_OverwriteNeedsConfirm ==
    /\ []OneRecordPerName
    /\ [][LET last == trace'[Len(trace')] IN
          /\ \A r \in roleFiles :
                r \notin roleFiles' =>
                   /\ last.op \in {"create", "delete"}
                   /\ last.prompt = <<r.name>>
                   /\ last.arg = <<"yes">>
          /\ last.arg = <<"no">> => roleFiles' = roleFiles
          /\ last.op = "defaults" => roleFiles \subseteq roleFiles'
          /\ (last.op = "create" /\ last.arg # <<"no">>) =>
                \E r \in roleFiles' : r.name = last.prompt[1]]_vars

C16_Witness ==
    /\ Len(trace) = 3
    /\ trace[1].op = "defaults"
    /\ trace[2].op = "create" /\ trace[2].arg = <<"no">>
    /\ trace[3].op = "create" /\ trace[3].arg = <<"yes">>
    /\ trace[2].prompt = trace[3].prompt
    /\ Cardinality(roleFiles) = 4
    /\ \E r \in roleFiles :
          r.name = DEFAULT /\ r.role # RoleTemplate(DEFAULT, DefaultRoleTexts[DEFAULT])

\* ---------------------------------------------------------------- C18
\* C18: the accumulation of a multi-line block is left (other than by
\* Ctrl+C) only by one forward of the buffered content, after which the
\* loop waits for the model: never by a run, a describe, an exit or a
\* failure.
C18_BlockLeftByForward ==
    [][(pc \in {"init_multi", "tty_multi"} /\ pc' \notin {pc, "interrupted"}) =>
          /\ pc' = "awaiting"
          /\ Len(trace') = Len(trace) + 1
          /\ trace'[Len(trace')].op = "forward"
          /\ trace'[Len(trace')].prompt = multiline_input
          /\ pending' = multiline_input]_vars

\* ---------------------------------------------------------------- C19
\* C19: for lines whose sentinels are paired and of which none is empty,
\* the pre-supplied loop and the interactive loop dispatch alike: each
\* yields, on the lines it has consumed, the actions one common reading
\* of the lines yields, and LastCompletion is the last result in both.
Act(op, prompt, arg) == [op |-> op, prompt |-> prompt, arg |-> arg]

Sig(src) ==
    LET D == Dispatched(src) IN
    [j \in 1..Len(D) |-> Act(D[j].op, D[j].prompt, D[j].arg)]

ResultsOf(src) ==
    LET R == SelectSeq(trace, LAMBDA ev : ev.op = "ok" /\ ev.src = src) IN
    [j \in 1..Len(R) |-> R[j].arg]

RefLast(rs, fc) == IF Len(rs) = 0 THEN fc ELSE rs[Len(rs)]

FirstSentinel(ls) ==
    IF \E k \in 1..Len(ls) : ls[k] = SENTINEL
    THEN CHOOSE k \in 1..Len(ls) :
            ls[k] = SENTINEL /\ \A h \in 1..(k - 1) : ls[h] # SENTINEL
    ELSE 0

\* The actions a sequence of lines stands for, read without reference to
\* where the lines come from: rs are the results of the forwards in
\* order, fc is LastCompletion before the first line.
RECURSIVE RefRun(_, _, _, _)
RefRun(ls, role, rs, fc) ==
    IF Len(ls) = 0 THEN << >>
    ELSE LET open == Head(ls) = SENTINEL
             k == FirstSentinel(Tail(ls))
         IN IF open /\ k = 0 THEN << >>
            ELSE LET content == IF open THEN BlockText(SubSeq(Tail(ls), 1, k - 1))
                                ELSE Head(ls)
                     rest == IF open THEN SubSeq(Tail(ls), k + 1, Len(ls) - 1)
                             ELSE Tail(ls)
                 IN IF content = EXIT
                    THEN <<Act("exit", content, EMPTY)>>
                    ELSE IF role = SHELL /\ content = EXECUTE
                    THEN <<Act("run", content, fc)>> \o RefRun(rest, role, rs, fc)
                    ELSE IF role = SHELL /\ content = DESCRIBE
                    THEN <<Act("describe", content, fc)>> \o RefRun(rest, role, rs, fc)
                    ELSE <<Act("forward", content, EMPTY)>>
                            \o (IF Len(rs) = 0 THEN << >>
                                ELSE RefRun(rest, role, Tail(rs), Head(rs)))

Paired(ls) == Cardinality({k \in 1..Len(ls) : ls[k] = SENTINEL}) % 2 = 0
NoEmpty(ls) == \A k \in 1..Len(ls) : ls[k] # EMPTY

C19_SameDispatch ==
    (Paired(init_lines) /\ NoEmpty(init_lines)) =>
       /\ Sig("init") = RefRun(SubSeq(init_lines, 1, i), roleName,
                               ResultsOf("init"), EMPTY)
       /\ Sig("tty") = RefRun(ttyLog, roleName, ResultsOf("tty"),
                              RefLast(ResultsOf("init"), EMPTY))
       /\ pc \in {"init", "init_multi"} =>
             full_completion = RefLast(ResultsOf("init"), EMPTY)
       /\ pc \in {"tty", "tty_multi"} =>
             full_completion = RefLast(ResultsOf("tty"),
                                       RefLast(ResultsOf("init"), EMPTY))

\* The same two lines through both loops: a forward, then a run.
C19_Witness ==
    /\ roleName = SHELL
    /\ pc = "tty"
    /\ init_lines = <<<<"a">>, EXECUTE>>
    /\ ttyLog = <<<<"a">>, EXECUTE>>
    /\ Len(Sig("init")) = 2 /\ Len(Sig("tty")) = 2
    /\ \A k \in 1..2 : /\ Sig("init")[k].op = Sig("tty")[k].op
                       /\ Sig("init")[k].prompt = Sig("tty")[k].prompt
    /\ Sig("tty")[2].op = "run"

\* A typed block closed and forwarded as the pre-supplied one would be.
C19_WitnessBlock ==
    /\ init_lines = << >>
    /\ ttyLog = <<SENTINEL, EXECUTE, <<"a">>, SENTINEL>>
    /\ Len(Sig("tty")) = 1
    /\ Sig("tty")[1] = Act("forward", <<"e", NL, "a", NL>>, EMPTY)
====
